---- MODULE Spec2Model ----
(***************************************************************************)
(* The telemetry reporter of packages/util/telemetry/generic/index.ts: a   *)
(* process-wide singleton in front of the Sentry client.                   *)
(*                                                                         *)
(* JavaScript values are modelled as follows.                              *)
(*   - a boolean-or-undefined value is one of "true", "false",            *)
(*     "undefined"; Truthy is JavaScript's truthiness on those;            *)
(*   - an object-or-undefined value is Undef or Obj(f), f a function from  *)
(*     keys to values (objects are always truthy, the empty one included); *)
(*   - the text of an error message is a sequence of characters, so that   *)
(*     toLowerCase and the regular expression act on it;                   *)
(*   - keys, names and messages that are only concatenated are strings.    *)
(***************************************************************************)
EXTENDS Integers, Sequences, FiniteSets, TLC

VARIABLES
    enabled,        \* Telemetry.enabled (static)
    extraInfo,      \* Telemetry.extraInfo (static)
    clientEnabled,  \* Sentry.getCurrentHub().getClient().getOptions().enabled
    tags,           \* what Sentry.setTags last set
    user,           \* what Sentry.setUser last set
    lastIndex,      \* IGNORE_ERRORS_REGEX.lastIndex (the regex has the g flag)
    last,           \* the call the caller made last
    pre,            \* the program state that call started in
    calls,          \* the Sentry calls that call made, in order
    logged,         \* the log lines that call wrote, in order
    nTags,          \* how many times Sentry.setTags was called since load
    nTurnedOn       \* how many times the flag went from falsy to truthy

vars == <<enabled, extraInfo, clientEnabled, tags, user, lastIndex,
          last, pre, calls, logged, nTags, nTurnedOn>>

----------------------------------------------------------------------------
(* Bounds and inputs *)

\* enable() may turn the reporter on at most this many times in a run
MaxEnables == 3

Undef == [defined |-> FALSE]
Obj(f) == [defined |-> TRUE, fields |-> f]
EmptyObj == Obj(<<>>)

Truthy(v) == v = "true"
Has(o, k) == o.defined /\ k \in DOMAIN o.fields
Get(o, k) == IF Has(o, k) THEN o.fields[k] ELSE "undefined"

\* { ...a, ...b }: the keys of both, b's value where both have the key
Spread(a, b) ==
    [k \in DOMAIN a \cup DOMAIN b |-> IF k \in DOMAIN b THEN b[k] ELSE a[k]]

\* value || {}
OrEmpty(v) == IF v.defined THEN v.fields ELSE <<>>

InfoA == Obj([uniqId |-> "install-a", sessId |-> "session-a"])
InfoB == Obj([uniqId |-> "install-b", sessId |-> "session-b"])

\* the ITelemetryArgs a caller passes to updateOpts
OptsSet ==
    [enableTelemetry : {"true", "false", "undefined"},
     extraInfo : {Undef, EmptyObj, InfoA, InfoB}]

MsgSyntax ==
    <<"b","o","o","m",":"," ","s","y","n","t","a","x"," ","e","r","r","o","r",
      " ","n","e","a","r"," ","F","R","O","M">>
MsgNullPointer ==
    <<"u","n","e","x","p","e","c","t","e","d"," ","n","u","l","l"," ",
      "p","o","i","n","t","e","r">>
MsgConnRefused == <<"E","C","O","N","N","R","E","F","U","S","E","D">>
MsgOra == <<"O","R","A","-","0","0","9","4","2">>
MsgEmpty == <<>>

Messages == {MsgSyntax, MsgNullPointer, MsgConnRefused, MsgOra, MsgEmpty}
LongestMessage == CHOOSE n \in {Len(m) : m \in Messages} : \A m \in Messages : Len(m) <= n

ErrData == Obj([code |-> 1, rows |-> 2])

\* the errors a caller reports: null, or an Error with a message and
\* possibly a data object attached
Errors ==
    {Undef} \cup
    {[defined |-> TRUE, message |-> m, data |-> d] :
        m \in Messages, d \in {Undef, ErrData}}

\* the data argument: omitted, or an object
DataArgs == {Undef, Obj([rows |-> 3])}

Severities == {"debug", "info", "warn", "error", "critical", "fatal", "trace"}
MessageTexts == {"driver missing"}
ValueArgs == {"undefined", "Install"}
EventNames == {"save", "time:query"}
PropertyArgs == {Undef, Obj([rows |-> 3]), Obj([value |-> 42])}
TimeKeys == {"query", "connect"}
Elapsed == {42, 7}
Times == {1000, 2000}

----------------------------------------------------------------------------
(* The deny list *)

\* the alternatives of IGNORE_ERRORS_REGEX, in order; "[0-9]+" is the one
\* atom that is not a literal character
IGNORE_ERRORS_REGEX == <<
    <<"a","g","g","r","e","g","a","t","e"," ","f","u","n","c","t","i","o","n">>,
    <<"a","l","r","e","a","d","y"," ","e","x","i","s","t","s">>,
    <<"a","u","t","h","e","n","t","i","c","a","t","i","o","n"," ","f","a","i","l","e","d">>,
    <<"c","a","n","n","o","t"," ","d","r","o","p">>,
    <<"c","r","o","s","s","-","d","a","t","a","b","a","s","e"," ","r","e","f","e","r","e","n","c","e","s">>,
    <<"d","o","e","s"," ","n","o","t"," ","e","x","i","s","t">>,
    <<"e","c","o","n","n","r","e","f","u","s","e","d">>,
    <<"e","c","o","n","n","r","e","s","e","t">>,
    <<"e","n","o","t","f","o","u","n","d">>,
    <<"e","n","o","t","f","o","u","n","d">>,
    <<"e","r","_","a","c","c","e","s","s","_","d","e","n","i","e","d","_","e","r","r","o","r">>,
    <<"e","r","_","b","a","d","_","d","b","_","e","r","r","o","r">>,
    <<"e","r","_","b","a","d","_","f","i","e","l","d","_","e","r","r","o","r">>,
    <<"e","r","_","c","a","n","n","o","t","_","l","o","a","d","_","f","r","o","m","_","t","a","b","l","e","_","v","2">>,
    <<"e","r","_","d","u","p","_","f","i","e","l","d","n","a","m","e">>,
    <<"e","r","_","n","o","_","r","e","f","e","r","e","n","c","e","d","_","r","o","w","_","2">>,
    <<"e","r","_","n","o","_","s","u","c","h","_","t","a","b","l","e">>,
    <<"e","r","_","n","o","t","_","s","u","p","p","o","r","t","e","d","_","a","u","t","h","_","m","o","d","e">>,
    <<"e","r","_","p","a","r","s","e","_","e","r","r","o","r">>,
    <<"e","t","i","m","e","d","o","u","t">>,
    <<"f","a","i","l","e","d"," ","t","o"," ","c","o","n","n","e","c","t">>,
    <<"i","s"," ","a","m","b","i","g","u","o","u","s">>,
    <<"k","e","y"," ","c","o","n","s","t","r","a","i","n","t">>,
    <<"l","o","g","i","n"," ","f","a","i","l","e","d">>,
    <<"n","o"," ","s","u","c","h"," ","t","a","b","l","e">>,
    <<"o","r","a","-","[0-9]+">>,
    <<"s","q","l","i","t","e","_","c","a","n","t","o","p","e","n">>,
    <<"s","y","n","t","a","x"," ","e","r","r","o","r">>,
    <<"u","n","k","n","o","w","n","_","c","o","d","e","_","p","l","e","a","s","e","_","r","e","p","o","r","t">>,
    <<"v","i","o","l","a","t","e","s">>
>>

Digits == {"0", "1", "2", "3", "4", "5", "6", "7", "8", "9"}
UpperCase ==
    <<"A","B","C","D","E","F","G","H","I","J","K","L","M",
      "N","O","P","Q","R","S","T","U","V","W","X","Y","Z">>
LowerCase ==
    <<"a","b","c","d","e","f","g","h","i","j","k","l","m",
      "n","o","p","q","r","s","t","u","v","w","x","y","z">>

\* toLowerCase of one character
LowerChar(c) ==
    IF \E j \in 1..Len(UpperCase) : UpperCase[j] = c
    THEN LowerCase[CHOOSE j \in 1..Len(UpperCase) : UpperCase[j] = c]
    ELSE c

\* String.prototype.toLowerCase
RECURSIVE ToLowerCase(_)
ToLowerCase(str) ==
    IF str = <<>> THEN <<>> ELSE <<LowerChar(Head(str))>> \o ToLowerCase(Tail(str))

\* how many digits str holds from index p on (indices count from 0)
RECURSIVE DigitRun(_, _)
DigitRun(str, p) ==
    IF p < Len(str) /\ str[p + 1] \in Digits THEN 1 + DigitRun(str, p + 1) ELSE 0

\* an alternative is literal characters, the last of them possibly followed
\* by [0-9]+
EndsInDigits(alt) == alt[Len(alt)] = "[0-9]+"
Literal(alt) == IF EndsInDigits(alt) THEN SubSeq(alt, 1, Len(alt) - 1) ELSE alt

\* the index just after the match of alt that starts at index p of str, or
\* -1 when alt does not match there; [0-9]+ takes every digit that follows
MatchFrom(alt, str, p) ==
    LET q == p + Len(Literal(alt))
    IN  IF q > Len(str) \/ SubSeq(str, p + 1, q) # Literal(alt) THEN -1
        ELSE IF ~EndsInDigits(alt) THEN q
        ELSE IF DigitRun(str, q) = 0 THEN -1
        ELSE q + DigitRun(str, q)

Min(S) == CHOOSE x \in S : \A y \in S : x <= y

\* the end of the match of the alternation at index p: the first alternative
\* that matches there decides
MatchAt(re, str, p) ==
    LET hits == {a \in 1..Len(re) : MatchFrom(re[a], str, p) # -1}
    IN  IF hits = {} THEN -1 ELSE MatchFrom(re[Min(hits)], str, p)

\* RegExp.prototype.test of a global regex: the search starts at lastIndex,
\* a match leaves lastIndex just after it, a failure resets lastIndex to 0
RegExpTest(re, str, from) ==
    LET starts == {p \in from..Len(str) : \E a \in 1..Len(re) : MatchFrom(re[a], str, p) # -1}
    IN  IF starts = {} THEN [result |-> FALSE, lastIndex |-> 0]
        ELSE [result |-> TRUE, lastIndex |-> MatchAt(re, str, Min(starts))]

\* IGNORE_ERRORS_REGEX.test(message.toLowerCase()) for every message a caller
\* of the model passes and every value lastIndex can hold, computed once
IgnoreErrorsTest ==
    [m \in Messages, from \in 0..LongestMessage |->
        RegExpTest(IGNORE_ERRORS_REGEX, ToLowerCase(m), from)]

----------------------------------------------------------------------------
(* The reporter.  An operation is a function from the program state s, a   *)
(* record of the six program variables plus the Sentry calls and log lines *)
(* made so far by the running call, to the state it leaves.                *)

\* process.env.PRODUCT || 'ext', with PRODUCT unset
product == "ext"

\* the Severity enum of the Sentry SDK, a TypeScript string enum: the object
\* Sentry.Severity has the member names as keys and the wire names as values
Severity ==
    [Fatal |-> "fatal", Error |-> "error", Warning |-> "warning", Log |-> "log",
     Info |-> "info", Debug |-> "debug", Critical |-> "critical"]

\* object[key] in JavaScript: undefined when the object has no such key.
\* Sentry.Severity[sev] looks the enum object up by a member's value, and a
\* string enum has no reverse mapping (a numeric enum would give the member's
\* name there, not the member)
Index(object, key) == IF key \in DOMAIN object THEN object[key] ELSE "undefined"

\* a || b on object-or-undefined values
OrElse(a, b) == IF a.defined THEN a ELSE b

CallSentry(s, c) == [s EXCEPT !.calls = Append(@, c)]
Log(s, namespace, format, args) ==
    [s EXCEPT !.logged = Append(@, [ns |-> namespace, fmt |-> format, args |-> args])]

Prefixed(key) == product \o ":" \o key

\* the beforeSend hook given to Sentry.init: null (Undef) drops the event
BeforeSend(s, event) == IF ~Truthy(s.enabled) THEN Undef ELSE event

StaticTags ==
    Obj([product |-> product, os |-> "process.platform", arch |-> "process.arch",
         version |-> "VERSION", extversionnum |-> "numericVersion(VERSION)",
         nodeversion |-> "process.version"])

UserOf(info) ==
    Obj([id |-> Get(info, "uniqId"), deviceId |-> Get(info, "uniqId"),
         sessionId |-> Get(info, "sessId")])

CreateClient(s) ==
    LET s1 == CallSentry([s EXCEPT !.clientEnabled = TRUE],
                         [call |-> "options.enabled", value |-> TRUE])
        s2 == CallSentry([s1 EXCEPT !.tags = StaticTags],
                         [call |-> "setTags", tags |-> StaticTags])
    IN  IF s2.extraInfo.defined
        THEN CallSentry([s2 EXCEPT !.user = UserOf(s2.extraInfo)],
                        [call |-> "setUser", user |-> UserOf(s2.extraInfo)])
        ELSE s2

\* enable() without its early return
EnableWithoutGuard(s) ==
    Log(CreateClient([s EXCEPT !.enabled = "true"]), "debug", "Telemetry enabled!", <<>>)

Enable(s) ==
    IF Truthy(s.enabled) THEN s
    ELSE Log(CreateClient([s EXCEPT !.enabled = "true"]),
             "debug", "Telemetry enabled!", <<>>)

\* disable() that leaves the client's own switch alone
DisableFlagOnly(s) ==
    IF ~Truthy(s.enabled) THEN s
    ELSE Log([s EXCEPT !.enabled = "false"], "debug", "Telemetry disabled!", <<>>)

Disable(s) ==
    IF ~Truthy(s.enabled) THEN s
    ELSE Log(CallSentry([s EXCEPT !.enabled = "false", !.clientEnabled = FALSE],
                        [call |-> "options.enabled", value |-> FALSE]),
             "debug", "Telemetry disabled!", <<>>)

\* updateOpts with Telemetry.extraInfo || opts.extraInfo || {}
UpdateOptsKeepingOld(s, opts) ==
    LET s1 == [s EXCEPT !.extraInfo = OrElse(s.extraInfo, OrElse(opts.extraInfo, EmptyObj))]
    IN  IF Truthy(opts.enableTelemetry) THEN Enable(s1) ELSE Disable(s1)

UpdateOpts(s, opts) ==
    LET s1 == [s EXCEPT !.extraInfo = OrElse(opts.extraInfo, OrElse(s.extraInfo, EmptyObj))]
    IN  IF Truthy(opts.enableTelemetry) THEN Enable(s1) ELSE Disable(s1)

\* registerException with { ...data, ...error.data }
RegisterExceptionErrorDataWins(s, error, data) ==
    IF ~Truthy(s.enabled) THEN s
    ELSE IF ~error.defined THEN s
    ELSE LET t == IgnoreErrorsTest[error.message, s.lastIndex]
             s1 == [s EXCEPT !.lastIndex = t.lastIndex]
             properties == Obj(Spread(OrEmpty(data), OrEmpty(error.data)))
         IN  IF t.result THEN s1
             ELSE CallSentry(
                    CallSentry(
                      Log(s1, "error", "Exception:%O\n\tData: %j", <<error, properties>>),
                      [call |-> "setExtras", exception |-> error, properties |-> properties]),
                    [call |-> "captureException", error |-> error])

\* error is Undef (null) or an Error; data is Undef when the caller omits it
RegisterException(s, error, data) ==
    IF ~Truthy(s.enabled) THEN s
    ELSE IF ~error.defined THEN s
    ELSE LET t == IgnoreErrorsTest[error.message, s.lastIndex]
             s1 == [s EXCEPT !.lastIndex = t.lastIndex]
             properties == Obj(Spread(OrEmpty(error.data), OrEmpty(data)))
         IN  IF t.result THEN s1
             ELSE CallSentry(
                    CallSentry(
                      Log(s1, "error", "Exception:%O\n\tData: %j", <<error, properties>>),
                      [call |-> "setExtras", exception |-> error, properties |-> properties]),
                    [call |-> "captureException", error |-> error])

\* severity.substr(0, 5).toLowerCase() on the severities a caller passes
LogNamespace(severity) == IF severity = "critical" THEN "criti" ELSE severity

\* the switch of registerMessage
SeverityOf(severity) ==
    CASE severity = "debug" -> Severity.Debug
      [] severity = "info" -> Severity.Info
      [] severity = "warn" -> Severity.Warning
      [] severity \in {"error", "fatal", "critical"} -> Severity.Error
      [] OTHER -> Severity.Info

\* registerMessage gated by Telemetry.enabled === false
RegisterMessageStrictGate(s, severity, message, value) ==
    IF s.enabled = "false" THEN s
    ELSE CallSentry(
           Log(s, LogNamespace(severity), "Message: %s, value: %s",
               <<message, IF value = "undefined" THEN "Dismissed" ELSE value>>),
           [call |-> "captureMessage", message |-> Prefixed(message),
            level |-> Index(Severity, SeverityOf(severity))])

\* value is "undefined" when the caller omits it
RegisterMessage(s, severity, message, value) ==
    IF ~Truthy(s.enabled) THEN s
    ELSE LET v == IF value = "undefined" THEN "Dismissed" ELSE value
             sev == SeverityOf(severity)
         IN  CallSentry(
               Log(s, LogNamespace(severity), "Message: %s, value: %s", <<message, v>>),
               [call |-> "captureMessage", message |-> Prefixed(message),
                level |-> Index(Severity, sev)])

\* registerEvent with the prefixed name as message too
RegisterEventPrefixedMessage(s, name, properties, now) ==
    IF ~Truthy(s.enabled) THEN s
    ELSE CallSentry(
           Log(s, "debug", "Event: %s\n%j", <<name, properties>>),
           [call |-> "captureEvent", event_id |-> Prefixed(name), message |-> Prefixed(name),
            extra |-> properties, timestamp |-> now])

\* properties is Undef when the caller omits it; now is +new Date()
RegisterEvent(s, name, properties, now) ==
    IF ~Truthy(s.enabled) THEN s
    ELSE CallSentry(
           Log(s, "debug", "Event: %s\n%j", <<name, properties>>),
           [call |-> "captureEvent", event_id |-> Prefixed(name), message |-> name,
            extra |-> properties, timestamp |-> now])

\* elapsed is what timer.elapsed() returns
RegisterTime(s, timeKey, elapsed, now) ==
    IF ~Truthy(s.enabled) THEN s
    ELSE RegisterEvent(
           Log(s, "debug", "Time: %s %d ms", <<timeKey, elapsed>>),
           Prefixed("time:" \o timeKey), Obj([value |-> elapsed]), now)

----------------------------------------------------------------------------
(* The state machine: module load, then any call at any time *)

\* after Sentry.init({ enabled: false, ... }), before the singleton is built
AtSentryInit ==
    [enabled |-> "undefined", extraInfo |-> Undef, clientEnabled |-> FALSE,
     tags |-> Undef, user |-> Undef, lastIndex |-> 0,
     calls |-> <<>>, logged |-> <<>>]

\* new Telemetry({ enableTelemetry: false })
Loaded == UpdateOpts(AtSentryInit, [enableTelemetry |-> "false", extraInfo |-> Undef])

Program(s) ==
    [enabled |-> s.enabled, extraInfo |-> s.extraInfo, clientEnabled |-> s.clientEnabled,
     tags |-> s.tags, user |-> s.user, lastIndex |-> s.lastIndex]

Current ==
    [enabled |-> enabled, extraInfo |-> extraInfo, clientEnabled |-> clientEnabled,
     tags |-> tags, user |-> user, lastIndex |-> lastIndex,
     calls |-> <<>>, logged |-> <<>>]

CountCalls(cs, name) == Cardinality({i \in 1..Len(cs) : cs[i].call = name})

Init ==
    /\ enabled = Loaded.enabled
    /\ extraInfo = Loaded.extraInfo
    /\ clientEnabled = Loaded.clientEnabled
    /\ tags = Loaded.tags
    /\ user = Loaded.user
    /\ lastIndex = Loaded.lastIndex
    /\ calls = Loaded.calls
    /\ logged = Loaded.logged
    /\ last = [op |-> "load"]
    /\ pre = Program(AtSentryInit)
    /\ nTags = CountCalls(Loaded.calls, "setTags")
    /\ nTurnedOn = 0

\* the caller's call op ran from the current state and left the state result
Step(op, result) ==
    \E res \in {result} :
        /\ nTags + CountCalls(res.calls, "setTags") <= MaxEnables
        /\ enabled' = res.enabled
        /\ extraInfo' = res.extraInfo
        /\ clientEnabled' = res.clientEnabled
        /\ tags' = res.tags
        /\ user' = res.user
        /\ lastIndex' = res.lastIndex
        /\ calls' = res.calls
        /\ logged' = res.logged
        /\ last' = op
        /\ pre' = Program(Current)
        /\ nTags' = nTags + CountCalls(res.calls, "setTags")
        /\ nTurnedOn' = nTurnedOn + (IF ~Truthy(enabled) /\ Truthy(res.enabled) THEN 1 ELSE 0)

CallUpdateOpts ==
    \E opts \in OptsSet :
        Step([op |-> "updateOpts", opts |-> opts], UpdateOpts(Current, opts))

CallEnable == Step([op |-> "enable"], Enable(Current))

CallDisable == Step([op |-> "disable"], Disable(Current))

CallRegisterException ==
    \E error \in Errors, data \in DataArgs :
        Step([op |-> "registerException", error |-> error, data |-> data],
             RegisterException(Current, error, data))

CallRegisterMessage ==
    \E severity \in Severities, message \in MessageTexts, value \in ValueArgs :
        Step([op |-> "registerMessage", severity |-> severity, message |-> message,
              value |-> value],
             RegisterMessage(Current, severity, message, value))

CallRegisterEvent ==
    \E name \in EventNames, properties \in PropertyArgs, now \in Times :
        Step([op |-> "registerEvent", name |-> name, properties |-> properties,
              now |-> now],
             RegisterEvent(Current, name, properties, now))

CallRegisterTime ==
    \E timeKey \in TimeKeys, elapsed \in Elapsed, now \in Times :
        Step([op |-> "registerTime", timeKey |-> timeKey, elapsed |-> elapsed,
              now |-> now],
             RegisterTime(Current, timeKey, elapsed, now))

Next ==
    \/ CallUpdateOpts
    \/ CallEnable
    \/ CallDisable
    \/ CallRegisterException
    \/ CallRegisterMessage
    \/ CallRegisterEvent
    \/ CallRegisterTime

Spec == Init /\ [][Next]_vars

----------------------------------------------------------------------------
(* Properties *)

Reports == {"registerException", "registerMessage", "registerEvent", "registerTime"}
CaptureCalls == {"captureException", "captureMessage", "captureEvent"}

WasEnabled == Truthy(pre.enabled)

\* the state the last call started in, with nothing called or logged yet
Before ==
    [enabled |-> pre.enabled, extraInfo |-> pre.extraInfo,
     clientEnabled |-> pre.clientEnabled, tags |-> pre.tags, user |-> pre.user,
     lastIndex |-> pre.lastIndex, calls |-> <<>>, logged |-> <<>>]

\* the message holds a deny-listed substring, whatever its case
ContainsDenied(message) == IgnoreErrorsTest[message, 0].result

NoEffect == Program(Current) = pre /\ calls = <<>> /\ logged = <<>>

\* C1: a report made while the enabled flag is falsy, the undefined flag
\* right after module load included, calls nothing on Sentry and logs nothing
C1_Gating ==
    (last.op \in Reports /\ ~WasEnabled) => (calls = <<>> /\ logged = <<>>)

C1_Witness ==
    /\ last.op = "registerMessage"
    /\ pre.enabled = "undefined"
    /\ calls = <<>>

\* C2: while enabled, every registerException whose message holds a
\* deny-listed substring is dropped: no captureException, on every such call
C2_DenyListDrops ==
    (/\ last.op = "registerException"
     /\ WasEnabled
     /\ last.error.defined
     /\ ContainsDenied(last.error.message))
    => CountCalls(calls, "captureException") = 0

\* C3: while enabled, registerTime(timeKey, timer) makes exactly the Sentry
\* call that registerEvent("time:" + timeKey, {value: timer.elapsed()}) makes
C3_TimingDelegation ==
    (last.op = "registerTime" /\ WasEnabled)
    => calls = RegisterEvent(Before, "time:" \o last.timeKey,
                             Obj([value |-> last.elapsed]), last.now).calls

\* C4: enable() while enabled and disable() while disabled change nothing and
\* call nothing, and setTags has run once per falsy-to-truthy change of the flag
C4_IdempotentToggle ==
    /\ (last.op = "enable" /\ WasEnabled) => NoEffect
    /\ (last.op = "disable" /\ ~WasEnabled) => NoEffect
    /\ nTags = nTurnedOn

C4_Witness ==
    /\ last.op = "enable"
    /\ WasEnabled
    /\ nTurnedOn = 2

\* C5: updateOpts keeps the stored extraInfo when opts has none (the empty
\* object after load), replaces it when opts has one, leaves the flag truthy
\* exactly when opts.enableTelemetry is, and a second call with the same opts
\* changes nothing
C5_ConfigureMerge ==
    /\ last.op = "load" => (extraInfo = EmptyObj /\ ~Truthy(enabled))
    /\ last.op = "updateOpts" =>
          /\ extraInfo = IF last.opts.extraInfo.defined
                         THEN last.opts.extraInfo ELSE pre.extraInfo
          /\ Truthy(enabled) = Truthy(last.opts.enableTelemetry)
          /\ Program(UpdateOpts(Current, last.opts)) = Program(Current)
          /\ UpdateOpts(Current, last.opts).calls = <<>>

C5_Witness ==
    /\ last.op = "updateOpts"
    /\ ~last.opts.extraInfo.defined
    /\ last.opts.enableTelemetry = "true"
    /\ pre.extraInfo = InfoA
    /\ ~WasEnabled
    /\ extraInfo = InfoA
    /\ enabled = "true"

\* the table of the spec, in the values of Sentry's Severity
BackendSeverity(severity) ==
    CASE severity = "debug" -> "debug"
      [] severity = "info" -> "info"
      [] severity = "warn" -> "warning"
      [] severity \in {"error", "critical", "fatal"} -> "error"
      [] OTHER -> "info"

\* C6: while enabled, registerMessage makes one captureMessage call, with the
\* prefixed message and the level the table gives for the severity
C6_SeverityMapping ==
    (last.op = "registerMessage" /\ WasEnabled)
    => calls = <<[call |-> "captureMessage",
                  message |-> product \o ":" \o last.message,
                  level |-> BackendSeverity(last.severity)]>>

\* C7: while enabled, registerEvent(name, properties) makes one captureEvent
\* call: event_id product:name, message name, extra the properties passed
C7_EventPrefixing ==
    (last.op = "registerEvent" /\ WasEnabled)
    => calls = <<[call |-> "captureEvent",
                  event_id |-> product \o ":" \o last.name,
                  message |-> last.name,
                  extra |-> last.properties,
                  timestamp |-> last.now]>>

C7_Witness ==
    /\ last.op = "registerEvent"
    /\ WasEnabled
    /\ last.name = "save"
    /\ last.properties = Obj([rows |-> 3])
    /\ Len(calls) = 1

\* the error's own data overlaid by the caller's: the caller's keys win
Overlaid(error, data) ==
    LET own == IF error.data.defined THEN error.data.fields ELSE <<>>
        given == IF data.defined THEN data.fields ELSE <<>>
    IN  Obj([k \in DOMAIN own \cup DOMAIN given |->
                IF k \in DOMAIN given THEN given[k] ELSE own[k]])

\* C8: while enabled, an error whose message holds no deny-listed substring
\* is captured exactly once, with its data overlaid by the caller's as extra
\* context, whatever was reported before; an absent error does nothing
C8_SurvivorsForwarded ==
    (last.op = "registerException" /\ WasEnabled)
    => IF ~last.error.defined THEN calls = <<>> /\ logged = <<>>
       ELSE ~ContainsDenied(last.error.message)
            => /\ calls = <<[call |-> "setExtras", exception |-> last.error,
                             properties |-> Overlaid(last.error, last.data)],
                            [call |-> "captureException", error |-> last.error]>>
               /\ Len(logged) = 1

C8_Witness ==
    /\ last.op = "registerException"
    /\ WasEnabled
    /\ pre.lastIndex > 0
    /\ last.error.defined
    /\ last.error.message = MsgNullPointer
    /\ last.error.data = ErrData
    /\ last.data = Obj([rows |-> 3])
    /\ CountCalls(calls, "captureException") = 1

\* C9: the client's own switch is on exactly when the flag is truthy, and
\* every capture is made with the switch on and passes beforeSend
C9_TwoGates ==
    /\ clientEnabled = Truthy(enabled)
    /\ \A i \in 1..Len(calls) :
          calls[i].call \in CaptureCalls
          => clientEnabled /\ BeforeSend(Current, calls[i]) = calls[i]

C9_Witness ==
    /\ last.op = "disable"
    /\ WasEnabled
    /\ pre.clientEnabled
    /\ ~clientEnabled

\* C10: whenever the flag is truthy, the user set on Sentry is the one of the
\* stored extraInfo
C10_UserCurrent == Truthy(enabled) => user = UserOf(extraInfo)
====
